---- MODULE Spec2Model ----
(***************************************************************************)
(* The HLS sink (gsthlssink.c) and its rolling playlist                    *)
(* (gstm3u8playlist.c): the playlist model and its text rendering, the     *)
(* force-key-unit scheduler, the per-segment encryption step and the       *)
(* message / state-change handlers that drive them.                        *)
(*                                                                         *)
(* Times are GstClockTime values scaled to milliseconds (GST_MSECOND is    *)
(* the unit), so that every value fits the model checker's integers.       *)
(* A guint holding G_MAXUINT is written -1: adding 1 to it gives 0 as it   *)
(* does modulo 2^32, and "%d" prints it as -1.                             *)
(***************************************************************************)
EXTENDS Integers, Sequences, FiniteSets, TLC

VARIABLES
  playlist,                \* sink->playlist (GstM3U8Playlist)
  index,                   \* sink->index
  last_running_time,       \* sink->last_running_time
  waiting_fku,             \* sink->waiting_fku
  target_duration,         \* sink->target_duration (seconds)
  playlist_length,         \* sink->playlist_length
  encryption_method,       \* sink->encryption_method
  is_reset_index_on_stop,  \* sink->is_reset_index_on_stop
  state,                   \* sink->state, the set of GST_M3U8_PLAYLIST_RENDER_* flags
  crypto,                  \* the cipher back-end the build selected (#if HAVE_OPENSSL ...)
  key,                     \* sink->key, the 16 bytes the cipher is keyed with
  persisted,               \* contents of the file at sink->playlist_location
  chunk,                   \* contents of the segment file named by the message in hand
  pc,                      \* position of the control thread inside gst_hls_sink_handle_message
  msg,                     \* the GstMultiFileSink message in hand
  ppc,                     \* position of the streaming thread inside the buffer probe
  pbuf,                    \* the buffer the streaming thread's probe holds
  outstanding,             \* history: requests pushed since the last segment closure or reset
  added,                   \* history: entries appended to the current playlist object
  nfiles,                  \* history: segment files multifilesink has closed
  last_add,                \* history: the last gst_m3u8_playlist_add_entry call
  enc,                     \* history: the last gst_hls_sink_encrypt_chunk call
  last_sched,              \* history: what the last scheduling decision did
  inbuf,                   \* in, the buffer gst_hls_sink_encrypt_chunk read the segment into
  final_size,              \* final_size of gst_hls_sink_encrypt_chunk; -1: not assigned yet
  rpc,                     \* position of the application thread inside gst_hls_sink_reset
  boundary,                \* history: running time of the last segment closure since the start
  observed,                \* history: a buffer reached the scheduler since the start
  posted,                  \* history: the error the last gst_hls_sink_write_playlist posted
  ivs,                     \* history: per encrypted segment, its file and the index its IV came from
  echo                     \* history: the last request pushed since the last closure, and whether a downstream event answered it

vars == <<playlist, index, last_running_time, waiting_fku, target_duration,
          playlist_length, encryption_method, is_reset_index_on_stop, state,
          crypto, persisted, chunk, pc, msg, ppc, pbuf, outstanding,
          added, nfiles, last_add, enc, last_sched,
          key, inbuf, final_size, rpc, boundary, observed, posted, ivs, echo>>

(***************************************************************************)
(* Bounds of the model.                                                    *)
(***************************************************************************)
MaxAdds == 2
MaxWindow == 1
MaxIndex == 1
MaxList == 2
MaxOutstanding == 3
MaxCalls == 3
MaxSize == 2
MaxLen == 33

Times == {0, 2400, 5000}
TargetDurations == {0, 2}
Windows == 0 .. MaxWindow
Durations == {2400, 2600, 3000, 14600}
Modes == {"never", "first", "all"}
Counts == {5, 258, 16909060}
Bytes == {0, 16, 255}

(***************************************************************************)
(* Program constants.                                                      *)
(***************************************************************************)
GST_MSECOND == 1
GST_SECOND == 1000
GST_M3U8_PLAYLIST_TYPE_EVENT == 0
GST_M3U8_PLAYLIST_TYPE_VOD == 1
GST_M3U8_PLAYLIST_VERSION == 3
GST_HLS_SINK_ENC_NONE == 0
GST_HLS_SINK_ENC_AES_128 == 1
DEFAULT_START_MEDIA_SEQUENCE == -1
AES_BLOCK_SIZE == 16
SIZEOF_GUINT == 4
DEFAULT_KEY_URI == "playlist.key"

Min(a, b) == IF a < b THEN a ELSE b

(***************************************************************************)
(* printf conversions.                                                     *)
(***************************************************************************)
Digit == <<"0", "1", "2", "3", "4", "5", "6", "7", "8", "9">>

RECURSIVE Dec(_)
Dec(n) == IF n < 10 THEN Digit[n + 1] ELSE Dec(n \div 10) \o Digit[(n % 10) + 1]

\* "%d"
SignedDec(n) == IF n < 0 THEN "-" \o Dec(0 - n) ELSE Dec(n)

\* "%02d" and "%03d" of a value below 100 / 1000
Pad2(n) == Digit[(n \div 10) + 1] \o Digit[(n % 10) + 1]
Pad3(n) == Digit[(n \div 100) + 1] \o Pad2(n % 100)

\* "%.6f" of duration / GST_SECOND
Fixed6(d) == Dec(d \div GST_SECOND) \o "." \o Pad3(d % GST_SECOND) \o "000"

(***************************************************************************)
(* gstm3u8playlist.c                                                       *)
(***************************************************************************)
gst_m3u8_entry_new(url, title, duration, discontinuous, program_date_time) ==
  [url |-> url, title |-> title, duration |-> duration,
   discontinuous |-> discontinuous, program_date_time |-> program_date_time]

gst_m3u8_playlist_new(version, window_size) ==
  [version |-> version,
   window_size |-> window_size,
   type |-> GST_M3U8_PLAYLIST_TYPE_EVENT,
   end_list |-> FALSE,
   encryption_method |-> 0,
   key_location |-> "playlist.key",
   entries |-> <<>>,
   sequence_number |-> 0,
   discontinuity_sequence_number |-> 0,
   program_date_time_mode |-> "all"]

\* the loop that deletes old entries: while (length >= window_size) pop_head
PopOld_OffByOne(entries, window_size) ==
  IF Len(entries) > window_size
  THEN SubSeq(entries, Len(entries) - window_size + 1, Len(entries))
  ELSE entries

PopOld(entries, window_size) ==
  IF Len(entries) >= window_size
  THEN SubSeq(entries, Len(entries) - window_size + 2, Len(entries))
  ELSE entries

gst_m3u8_playlist_add_entry(pl, url, title, duration, idx, discontinuous, program_date_time) ==
  IF pl.type = GST_M3U8_PLAYLIST_TYPE_VOD
  THEN [res |-> FALSE, playlist |-> pl]
  ELSE LET entry == gst_m3u8_entry_new(url, title, duration, discontinuous,
                                       program_date_time)
           kept == IF pl.window_size > 0
                   THEN PopOld(pl.entries, pl.window_size)
                   ELSE pl.entries
       IN [res |-> TRUE,
           playlist |-> [pl EXCEPT !.sequence_number = idx + 1,
                                   !.entries = Append(kept, entry)]]

\* the duration of every entry taken, longer or not
RECURSIVE MaxDuration_Unconditional(_, _)
MaxDuration_Unconditional(entries, acc) ==
  IF entries = <<>> THEN acc
  ELSE MaxDuration_Unconditional(Tail(entries), Head(entries).duration)

RECURSIVE MaxDuration(_, _)
MaxDuration(entries, acc) ==
  IF entries = <<>> THEN acc
  ELSE MaxDuration(Tail(entries),
                   IF Head(entries).duration > acc THEN Head(entries).duration
                   ELSE acc)

\* (guint) ((target_duration + 500 * GST_MSECOND) / GST_SECOND), without ceil
TargetDuration_Truncating(pl) ==
  (MaxDuration(pl.entries, 0) + 500 * GST_MSECOND) \div GST_SECOND

\* (guint) ceil ((target_duration + 500.0 * GST_MSECOND) / GST_SECOND)
gst_m3u8_playlist_target_duration(pl) ==
  (MaxDuration(pl.entries, 0) + 500 * GST_MSECOND + (GST_SECOND - 1)) \div GST_SECOND

encryption_method_to_string(method) ==
  IF method = 0 THEN "NONE" ELSE IF method = 1 THEN "AES-128" ELSE "(null)"

\* the first-chunk mode without the test of the discontinuous flag
format_program_date_time_HeadOnly(pl, entry, is_head) ==
  IF pl.program_date_time_mode = "never" THEN ""
  ELSE IF pl.program_date_time_mode = "first" /\ ~is_head
  THEN ""
  ELSE "#EXT-X-PROGRAM-DATE-TIME:1970-01-01T00:00:"
         \o Pad2(entry.program_date_time \div GST_SECOND) \o "."
         \o Pad3(entry.program_date_time % GST_SECOND) \o "Z\n"

\* program_date_time is the offset from sink->start_time; start_time is taken
\* to be 1970-01-01T00:00:00Z and offsets stay below one minute.
format_program_date_time(pl, entry, is_head) ==
  IF pl.program_date_time_mode = "never" THEN ""
  ELSE IF pl.program_date_time_mode = "first" /\ ~is_head /\ ~entry.discontinuous
  THEN ""
  ELSE "#EXT-X-PROGRAM-DATE-TIME:1970-01-01T00:00:"
         \o Pad2(entry.program_date_time \div GST_SECOND) \o "."
         \o Pad3(entry.program_date_time % GST_SECOND) \o "Z\n"

\* what one g_string_append / g_string_append_printf call adds to the text,
\* with the name of the line it writes
Piece(tag, text) == [tag |-> tag, text |-> text]

\* the GString after the appends, in the order they were made
RECURSIVE Concat(_)
Concat(pieces) ==
  IF pieces = <<>> THEN "" ELSE Head(pieces).text \o Concat(Tail(pieces))

\* the appends of one turn of the entries loop
EntryPieces(pl, entry, is_head) ==
  (IF entry.discontinuous
   THEN <<Piece("DISCONTINUITY", "#EXT-X-DISCONTINUITY\n")>> ELSE <<>>)
  \o (IF format_program_date_time(pl, entry, is_head) /= ""
      THEN <<Piece("PROGRAM-DATE-TIME", format_program_date_time(pl, entry, is_head))>>
      ELSE <<>>)
  \o (IF pl.version < 3
      THEN <<Piece("EXTINF", "#EXTINF:"
                     \o SignedDec((entry.duration + 500 * GST_MSECOND) \div GST_SECOND)
                     \o "," \o entry.title \o "\n")>>
      ELSE <<Piece("EXTINF", "#EXTINF:" \o Fixed6(entry.duration) \o ","
                     \o entry.title \o "\n")>>)
  \o <<Piece("URL", entry.url \o "\n")>>

RenderEntry(pl, entry, is_head) == Concat(EntryPieces(pl, entry, is_head))

\* the queue walked from the tail
RECURSIVE EntriesPieces_NewestFirst(_, _, _)
EntriesPieces_NewestFirst(pl, entries, is_head) ==
  IF entries = <<>> THEN <<>>
  ELSE EntriesPieces_NewestFirst(pl, Tail(entries), FALSE)
         \o EntryPieces(pl, Head(entries), is_head)

RECURSIVE EntriesPieces(_, _, _)
EntriesPieces(pl, entries, is_head) ==
  IF entries = <<>> THEN <<>>
  ELSE EntryPieces(pl, Head(entries), is_head)
         \o EntriesPieces(pl, Tail(entries), FALSE)

RenderEntries(pl, entries, is_head) == Concat(EntriesPieces(pl, entries, is_head))

\* every append gst_m3u8_playlist_render makes, first to last
RenderPieces(pl) ==
  <<Piece("EXTM3U", "#EXTM3U\n"),
    Piece("VERSION", "#EXT-X-VERSION:" \o SignedDec(pl.version) \o "\n"),
    Piece("MEDIA-SEQUENCE", "#EXT-X-MEDIA-SEQUENCE:"
            \o SignedDec(pl.sequence_number - Len(pl.entries)) \o "\n"),
    Piece("TARGETDURATION", "#EXT-X-TARGETDURATION:"
            \o Dec(gst_m3u8_playlist_target_duration(pl)) \o "\n")>>
  \o (IF pl.encryption_method /= 0
      THEN <<Piece("KEY", "#EXT-X-KEY:METHOD="
                     \o encryption_method_to_string(pl.encryption_method)
                     \o ",URI=\"" \o pl.key_location \o "\"\n")>>
      ELSE <<>>)
  \o <<Piece("BLANK", "\n")>>
  \o EntriesPieces(pl, pl.entries, TRUE)
  \o (IF pl.end_list THEN <<Piece("ENDLIST", "#EXT-X-ENDLIST")>> ELSE <<>>)

gst_m3u8_playlist_render(pl) == Concat(RenderPieces(pl))

\* declared in gstm3u8playlist.h, defined outside the files at hand
gst_m3u8_playlist_add_discontinuity(pl) ==
  [pl EXCEPT !.discontinuity_sequence_number = @ + 1]

(***************************************************************************)
(* gsthlssink.c: encryption of a finished segment file.                    *)
(* A call is described by the first step of it that fails ("none": every   *)
(* step succeeds).  File contents are "plain" (as multifilesink wrote      *)
(* them), "cipher" (the whole segment, encrypted), "cipher_partial" (the   *)
(* encryption of the bytes a short read returned), "cipher_garbled"        *)
(* (written with the length EVP_EncryptFinal_ex left unset) and            *)
(* "cipher_truncated" (what reached the disk when the buffered fwrite      *)
(* failed at fclose, which runs after the rename).                         *)
(***************************************************************************)
Backends == {"openssl", "nettle", "gcrypt"}

\* sink->key after gst_hls_sink_open_key.  The key is "zero" (as allocated,
\* no gst_hls_sink_open_key yet), "unread" (the key file could not be
\* opened: the bytes are what they were), "partial" (fread returned fewer
\* than AES_BLOCK_SIZE bytes) or "loaded".
KeyFiles == {"missing", "short", "good"}

gst_hls_sink_open_key(k, file) ==
  IF file = "missing" THEN "unread"
  ELSE IF file = "short" THEN "partial"
  ELSE "loaded"

\* the bytes of a guint as they lie in memory after GUINT_TO_BE, lowest
\* address first
GUINT_TO_BE(u) ==
  [i \in 1 .. SIZEOF_GUINT |-> (u \div (256 ^ (SIZEOF_GUINT - i))) % 256]

\* the bytes in host order of a little-endian machine: GUINT_TO_BE left out
gst_hls_sink_create_iv_HostOrder(idx) ==
  [k \in 1 .. AES_BLOCK_SIZE |->
     IF k <= AES_BLOCK_SIZE - SIZEOF_GUINT THEN 0
     ELSE GUINT_TO_BE(idx)[AES_BLOCK_SIZE + 1 - k]]

\* iv[] = { 0 } of gst_hls_sink_init_encrypting, then the loop of
\* gst_hls_sink_create_iv
gst_hls_sink_create_iv(idx) ==
  [k \in 1 .. AES_BLOCK_SIZE |->
     IF k <= AES_BLOCK_SIZE - SIZEOF_GUINT THEN 0
     ELSE GUINT_TO_BE(idx)[k - (AES_BLOCK_SIZE - SIZEOF_GUINT)]]

\* the padding left out when the size is a multiple of the block size
add_padding_NoneWhenAligned(buf, size) ==
  LET padding == (AES_BLOCK_SIZE - (size % AES_BLOCK_SIZE)) % AES_BLOCK_SIZE
  IN [buf |-> [i \in 1 .. size + padding |-> IF i <= size THEN buf[i] ELSE padding],
      ret |-> size + padding]

\* add_padding (nettle and gcrypt builds): buf holds size bytes and has room
\* for AES_BLOCK_SIZE more; ret is the value returned
add_padding(buf, size) ==
  LET padding == AES_BLOCK_SIZE - (size % AES_BLOCK_SIZE)
  IN [buf |-> [i \in 1 .. size + padding |-> IF i <= size THEN buf[i] ELSE padding],
      ret |-> size + padding]

Faults(backend) ==
  {"none", "open_chunk", "open_encrypted", "stat", "read_none", "read_partial",
   "write", "flush", "rename"}
  \cup (IF backend = "openssl" THEN {"init", "encrypt", "final"} ELSE {})
  \cup (IF backend = "gcrypt" THEN {"init", "encrypt"} ELSE {})

\* the set of contents the segment file can have when the call returns
gst_hls_sink_encrypt_chunk(content, fault) ==
  IF fault = "init" THEN {content}                        \* goto cleanup
  ELSE IF fault \in {"open_chunk", "open_encrypted"} THEN {content}
  ELSE IF fault = "stat" THEN {content}
  ELSE IF fault = "read_none" THEN {content}              \* size == 0 && ferror
  ELSE IF fault = "encrypt" THEN {content}
  ELSE IF fault = "write" THEN {content}
  ELSE IF fault = "rename" THEN {content}
  ELSE IF fault = "read_partial" THEN {"cipher_partial"}  \* size > 0: not checked
  ELSE IF fault = "flush" THEN {"cipher_truncated"}      \* fclose after rename
  ELSE IF fault = "final" THEN {content, "cipher_garbled"} \* final_size unset
  ELSE {"cipher"}

(***************************************************************************)
(* gsthlssink.c: the force-key-unit scheduler.  The functions work on the  *)
(* fields they read and write, gathered in a record; emitted counts the    *)
(* events the operation in progress pushed, and note tells what the last   *)
(* scheduling decision was: "pushed", "failed" (gst_pad_push_event         *)
(* returned FALSE), "held" (a buffer seen while waiting_fku) or "none".    *)
(***************************************************************************)
NoReq == [sent |-> FALSE, running_time |-> 0, count |-> 0]

Sched ==
  [last_running_time |-> last_running_time, waiting_fku |-> waiting_fku,
   emitted |-> 0, note |-> last_sched, event |-> NoReq]

\* the request carries the index as it is
ForceKeyUnit_SameIndex(s, td, idx) ==
  [sent |-> TRUE, running_time |-> s.last_running_time + td * GST_SECOND,
   count |-> idx]

\* gst_video_event_new_upstream_force_key_unit (running_time, TRUE, index + 1)
ForceKeyUnit(s, td, idx) ==
  [sent |-> TRUE, running_time |-> s.last_running_time + td * GST_SECOND,
   count |-> idx + 1]

\* waiting_fku set although the push failed
schedule_next_key_unit_Stuck(s, td, idx, ok) ==
  IF td = 0 THEN [s EXCEPT !.waiting_fku = TRUE, !.note = "none", !.event = NoReq]
  ELSE [s EXCEPT !.waiting_fku = TRUE,
                 !.event = ForceKeyUnit(s, td, idx),
                 !.emitted = IF ok THEN @ + 1 ELSE @,
                 !.note = IF ok THEN "pushed" ELSE "failed"]

\* the target_duration == 0 test left out
schedule_next_key_unit_Always(s, td, idx, ok) ==
  [s EXCEPT !.waiting_fku = ok,
            !.event = ForceKeyUnit(s, td, idx),
            !.emitted = IF ok THEN @ + 1 ELSE @,
            !.note = IF ok THEN "pushed" ELSE "failed"]

\* ok: the result of gst_pad_push_event
schedule_next_key_unit(s, td, idx, ok) ==
  IF td = 0
  THEN [s EXCEPT !.waiting_fku = TRUE, !.note = "none",   \* goto out, res = TRUE
                 !.event = NoReq]
  ELSE [s EXCEPT !.waiting_fku = ok,
                 !.event = ForceKeyUnit(s, td, idx),
                 !.emitted = IF ok THEN @ + 1 ELSE @,
                 !.note = IF ok THEN "pushed" ELSE "failed"]

\* buf.rt: gst_segment_to_running_time of the buffer's timestamp
gst_hls_sink_check_schedule_next_key_unit(s, td, idx, buf) ==
  IF ~buf.valid THEN s
  ELSE schedule_next_key_unit([s EXCEPT !.last_running_time = buf.rt], td, idx, buf.ok)

\* the waiting_fku test left out
gst_hls_sink_ghost_buffer_probe_NoWait(s, td, idx, buf) ==
  IF td = 0 THEN s
  ELSE gst_hls_sink_check_schedule_next_key_unit(s, td, idx, buf)

gst_hls_sink_ghost_buffer_probe(s, td, idx, buf) ==
  IF td = 0 THEN s                                        \* return GST_PAD_PROBE_OK
  ELSE IF s.waiting_fku THEN [s EXCEPT !.note = "held"]   \* return GST_PAD_PROBE_OK
  ELSE gst_hls_sink_check_schedule_next_key_unit(s, td, idx, buf)

\* the loop of gst_hls_sink_chain_list; gst_pad_chain runs the pad's buffer
\* probe on each buffer it is given
RECURSIVE ChainEach(_, _, _, _)
ChainEach(s, td, idx, list) ==
  IF list = <<>> THEN s
  ELSE LET b == Head(list)
           s1 == IF ~s.waiting_fku
                 THEN gst_hls_sink_check_schedule_next_key_unit(s, td, idx, b)
                 ELSE s
           s2 == gst_hls_sink_ghost_buffer_probe(s1, td, idx, b)
       IN ChainEach(s2, td, idx, Tail(list))

gst_hls_sink_chain_list(s, td, idx, list) ==
  IF td = 0 THEN s                   \* gst_proxy_pad_chain_list_default
  ELSE IF s.waiting_fku THEN [s EXCEPT !.note = "held"]
  ELSE ChainEach(s, td, idx, list)

(***************************************************************************)
(* The sink's state.                                                       *)
(***************************************************************************)
NoMsg == [filename |-> "", running_time |-> 0]
NoBuf == [valid |-> FALSE, rt |-> 0, ok |-> TRUE]
NoAdd == [called |-> FALSE, end_list |-> FALSE, res |-> FALSE,
          seq_before |-> 0, seq_after |-> 0, changed |-> FALSE]
\* echo.st is "off" where the upstream element is not followed, else "none",
\* "due" (a request was pushed) or "done" (a downstream event carried its
\* count); echo.failed: a push has failed since the start
NoEcho == [st |-> "off", count |-> 0, failed |-> FALSE]
NoEnc == [ran |-> FALSE, fault |-> "none", iv |-> <<>>]

Buffers ==
  {[valid |-> TRUE, rt |-> t, ok |-> o] : t \in Times, o \in BOOLEAN} \cup {NoBuf}

\* buffer lists are made of buffers that carry a timestamp past the start
ListBuffers == {b \in Buffers : b.valid /\ b.rt > 0}

BufferLists == UNION {[1 .. n -> ListBuffers] : n \in 0 .. MaxList}

\* "segment%05d.ts" with multifilesink's file counter
Location(n) == "segment000" \o Pad2(n) \o ".ts"

\* gst_hls_sink_init, then the properties the application sets before it
\* starts the element; with encryption the element is either still in NULL
\* (the key is as g_object_new zeroed it) or past a NULL_TO_READY that read
\* the key file
InitSink ==
  /\ playlist_length \in Windows
  /\ encryption_method \in {GST_HLS_SINK_ENC_NONE, GST_HLS_SINK_ENC_AES_128}
  /\ playlist = [gst_m3u8_playlist_new(GST_M3U8_PLAYLIST_VERSION, playlist_length)
                   EXCEPT !.encryption_method = encryption_method,
                          !.key_location = DEFAULT_KEY_URI]
  /\ index = DEFAULT_START_MEDIA_SEQUENCE
  /\ last_running_time = 0
  /\ waiting_fku = FALSE
  /\ target_duration \in TargetDurations
  /\ is_reset_index_on_stop \in BOOLEAN
  /\ state = {}
  /\ crypto \in (IF encryption_method = GST_HLS_SINK_ENC_NONE THEN {"unused"}
                 ELSE Backends)
  /\ key \in (IF encryption_method = GST_HLS_SINK_ENC_NONE THEN {"zero"}
              ELSE {"zero", "loaded"})
  /\ persisted = ""
  /\ chunk = "none"
  /\ pc = "idle"
  /\ msg = NoMsg
  /\ ppc = "idle"
  /\ pbuf = NoBuf
  /\ outstanding = 0
  /\ added = <<>>
  /\ nfiles = 0
  /\ last_add = NoAdd
  /\ enc = NoEnc
  /\ last_sched = "none"
  /\ inbuf = <<>>
  /\ final_size = -1
  /\ rpc = "idle"
  /\ boundary = 0
  /\ observed = FALSE
  /\ posted = "none"
  /\ ivs = <<>>

Init == InitSink /\ echo = NoEcho

\* the scheduler fields after an operation, and the record of what it did
SetSched(s) ==
  /\ last_running_time' = s.last_running_time
  /\ waiting_fku' = s.waiting_fku
  /\ outstanding' = Min(outstanding + s.emitted, MaxOutstanding)
  /\ last_sched' = s.note
  /\ echo' = IF echo.st = "off" THEN echo
             ELSE IF s.emitted > 0
             THEN [echo EXCEPT !.st = "due", !.count = s.event.count]
             ELSE [echo EXCEPT !.failed = @ \/ s.note = "failed"]

\* GST_ELEMENT_ERROR (sink, RESOURCE, OPEN_WRITE, ...) when the write failed
WriteError(wok) == IF wok THEN "none" ELSE "RESOURCE_OPEN_WRITE"

\* the file truncated by a write that failed
gst_hls_sink_write_playlist_Truncating(pl, old, wok) ==
  IF wok THEN gst_m3u8_playlist_render(pl) ELSE ""

\* g_file_set_contents replaces the file as a whole or leaves it as it was
gst_hls_sink_write_playlist(pl, old, wok) ==
  IF wok THEN gst_m3u8_playlist_render(pl) ELSE old

(***************************************************************************)
(* gst_hls_sink_handle_message, GST_MESSAGE_ELEMENT "GstMultiFileSink":    *)
(* one step per call the handler makes, in the order it makes them.        *)
(***************************************************************************)
MsgElement(rt) ==
  /\ pc = "idle"
  /\ nfiles < MaxAdds
  /\ rt >= last_running_time
  /\ LET duration == rt - last_running_time
         filename == Location(nfiles)
         r == gst_m3u8_playlist_add_entry(playlist, filename, "", duration, index,
                                          FALSE, last_running_time)
     IN /\ playlist' \in (IF rpc = "freed" THEN {r.playlist, playlist}
                          ELSE {r.playlist})   \* freed: the stores may be lost
        /\ added' = IF r.res
                    THEN Append(added, r.playlist.entries[Len(r.playlist.entries)])
                    ELSE added
        /\ last_add' = [called |-> TRUE, end_list |-> playlist.end_list,
                        res |-> r.res,
                        seq_before |-> playlist.sequence_number,
                        seq_after |-> r.playlist.sequence_number,
                        changed |-> r.playlist /= playlist]
        /\ msg' = [filename |-> filename, running_time |-> rt]
  /\ last_running_time' = rt
  /\ chunk' = "plain"
  /\ nfiles' = nfiles + 1
  /\ outstanding' = 0
  /\ pc' = "encrypt"
  /\ boundary' = rt
  /\ echo' = IF echo.st = "off" THEN echo ELSE [echo EXCEPT !.st = "none", !.count = 0]
  /\ UNCHANGED <<index, waiting_fku, target_duration, playlist_length,
                 encryption_method, is_reset_index_on_stop, state, crypto,
                 persisted, ppc, pbuf, enc, last_sched,
                 key, inbuf, final_size,
                 rpc, observed, posted, ivs>>

\* gst_hls_sink_encrypt_chunk not called
MsgEncrypt_Skipped ==
  /\ pc = "encrypt"
  /\ chunk' = chunk
  /\ enc' = NoEnc
  /\ pc' = "write"
  /\ UNCHANGED <<playlist, index, last_running_time, waiting_fku, target_duration,
                 playlist_length, encryption_method, is_reset_index_on_stop, state,
                 crypto, persisted, msg, ppc, pbuf, outstanding, added,
                 last_add, last_sched, nfiles,
                 key, inbuf, final_size,
                 rpc, boundary, observed, posted, ivs, echo>>

MsgEncrypt ==
  /\ pc = "encrypt"
  /\ IF encryption_method /= GST_HLS_SINK_ENC_NONE
     THEN \E fault \in Faults(crypto) :
            \E c \in gst_hls_sink_encrypt_chunk(chunk, fault) :
              /\ chunk' = c
              /\ enc' = [ran |-> TRUE, fault |-> fault,
                          iv |-> gst_hls_sink_create_iv(index)]
              /\ ivs' = Append(ivs, [url |-> msg.filename, index |-> index])
     ELSE /\ chunk' = chunk
          /\ enc' = NoEnc
          /\ ivs' = ivs
  /\ pc' = "write"
  /\ UNCHANGED <<playlist, index, last_running_time, waiting_fku, target_duration,
                 playlist_length, encryption_method, is_reset_index_on_stop, state,
                 crypto, persisted, msg, ppc, pbuf, outstanding, added,
                 last_add, last_sched, nfiles,
                 key, inbuf, final_size,
                 rpc, boundary, observed, posted, echo>>

MsgWrite(wok) ==
  /\ pc = "write"
  /\ persisted' \in {gst_hls_sink_write_playlist(playlist, persisted, wok)}
                      \cup (IF rpc = "freed" THEN {"garbage"} ELSE {})
  /\ state' = state \cup {"STARTED"}
  /\ pc' = "schedule"
  /\ last_add' = NoAdd
  /\ enc' = NoEnc
  /\ posted' = WriteError(wok)
  /\ UNCHANGED <<playlist, index, last_running_time, waiting_fku, target_duration,
                 playlist_length, encryption_method, is_reset_index_on_stop,
                 crypto, chunk, msg, ppc, pbuf, outstanding, added, last_sched, nfiles,
                 key, inbuf, final_size,
                 rpc, boundary, observed, ivs, echo>>

MsgSchedule(ok) ==
  /\ pc = "schedule"
  /\ SetSched(schedule_next_key_unit([Sched EXCEPT !.waiting_fku = FALSE],
                                     target_duration, index, ok))
  /\ pc' = "idle"
  /\ msg' = NoMsg
  /\ chunk' = "none"
  /\ UNCHANGED <<playlist, index, target_duration, playlist_length,
                 encryption_method, is_reset_index_on_stop, state, crypto,
                 persisted, ppc, pbuf, added, last_add, enc, nfiles,
                 key, inbuf, final_size,
                 rpc, boundary, observed, posted, ivs>>

(***************************************************************************)
(* End of stream and state changes.                                        *)
(***************************************************************************)
\* sequence_number left as it is
Terminate_IndexOnly(pl, idx, reset_index) ==
  IF reset_index
  THEN [playlist |-> [pl EXCEPT !.end_list = TRUE], index |-> idx]
  ELSE [playlist |-> gst_m3u8_playlist_add_discontinuity(pl), index |-> idx + 1]

\* end_list left as it is
Terminate_StaysOpen(pl, idx, reset_index) ==
  IF reset_index
  THEN [playlist |-> pl, index |-> idx]
  ELSE [playlist |-> [gst_m3u8_playlist_add_discontinuity(pl)
                        EXCEPT !.sequence_number = @ + 1],
        index |-> idx + 1]

\* what GST_MESSAGE_EOS and PAUSED_TO_READY do to the playlist and the index
Terminate(pl, idx, reset_index) ==
  IF reset_index
  THEN [playlist |-> [pl EXCEPT !.end_list = TRUE], index |-> idx]
  ELSE [playlist |-> [gst_m3u8_playlist_add_discontinuity(pl)
                        EXCEPT !.sequence_number = @ + 1],
        index |-> idx + 1]

CanTerminate ==
  is_reset_index_on_stop \/ (index < MaxIndex /\ playlist.sequence_number <= MaxIndex)

\* the is_reset_index_on_stop test left out
gst_hls_sink_reset_Always(pl, idx, reset_index, length) ==
  [playlist |-> gst_m3u8_playlist_new(GST_M3U8_PLAYLIST_VERSION, length),
   index |-> DEFAULT_START_MEDIA_SEQUENCE]

\* the playlist and the index gst_hls_sink_reset leaves
gst_hls_sink_reset(pl, idx, reset_index, length) ==
  IF reset_index
  THEN [playlist |-> gst_m3u8_playlist_new(GST_M3U8_PLAYLIST_VERSION, length),
        index |-> DEFAULT_START_MEDIA_SEQUENCE]
  ELSE [playlist |-> pl, index |-> idx]

Eos(wok) ==
  /\ pc = "idle"
  /\ CanTerminate
  /\ LET t == Terminate(playlist, index, is_reset_index_on_stop)
     IN /\ playlist' = t.playlist
        /\ index' = t.index
        /\ persisted' = gst_hls_sink_write_playlist(t.playlist, persisted, wok)
  /\ state' = state \cup {"ENDED"}
  /\ posted' = WriteError(wok)
  /\ UNCHANGED <<last_running_time, waiting_fku, target_duration, playlist_length,
                 encryption_method, is_reset_index_on_stop, crypto, chunk, pc, msg,
                 ppc, pbuf, outstanding, added, last_add, enc, last_sched, nfiles,
                 key, inbuf, final_size,
                 rpc, boundary, observed, ivs, echo>>

\* gst_hls_sink_change_state, the transitions that touch the sink's fields
ChangeState(trans, wok) ==
  /\ pc = "idle"
  /\ trans \in {"PAUSED_TO_READY", "READY_TO_NULL"}
  /\ LET drain == /\ trans = "PAUSED_TO_READY"
                  /\ "STARTED" \in state
                  /\ "ENDED" \notin state
         t == IF drain THEN Terminate(playlist, index, is_reset_index_on_stop)
              ELSE [playlist |-> playlist, index |-> index]
         r == gst_hls_sink_reset(t.playlist, t.index, is_reset_index_on_stop,
                                 playlist_length)
     IN /\ drain => CanTerminate
        /\ persisted' = IF drain
                        THEN gst_hls_sink_write_playlist(t.playlist, persisted, wok)
                        ELSE persisted
        /\ posted' = IF drain THEN WriteError(wok) ELSE posted
        /\ playlist' = r.playlist
        /\ index' = r.index
  /\ last_running_time' = 0
  /\ waiting_fku' = FALSE
  /\ state' = {}
  /\ outstanding' = 0
  /\ added' = IF is_reset_index_on_stop THEN <<>> ELSE added
  /\ ivs' = IF is_reset_index_on_stop THEN <<>> ELSE ivs
  /\ last_sched' = "none"
  /\ boundary' = 0
  /\ observed' = FALSE
  /\ echo' = IF echo.st = "off" THEN echo
             ELSE [st |-> "none", count |-> 0, failed |-> FALSE]
  /\ UNCHANGED <<target_duration, playlist_length, encryption_method,
                 is_reset_index_on_stop, crypto, chunk, pc, msg, ppc, pbuf,
                 last_add, enc, nfiles,
                 key, inbuf, final_size,
                 rpc>>

(***************************************************************************)
(* The stop on the application thread as the two stretches around the      *)
(* moment sink->playlist dangles: gst_hls_sink_change_state up to          *)
(* gst_m3u8_playlist_free in gst_hls_sink_reset, then the rest of          *)
(* gst_hls_sink_reset.  The sink holds no lock, so the steps of the        *)
(* message handler may come in between.  rpc is "idle" or "freed".         *)
(***************************************************************************)
StopFree(trans, wok) ==
  /\ rpc = "idle"
  /\ is_reset_index_on_stop
  /\ trans \in {"PAUSED_TO_READY", "READY_TO_NULL"}
  /\ LET drain == /\ trans = "PAUSED_TO_READY"
                  /\ "STARTED" \in state
                  /\ "ENDED" \notin state
         t == IF drain THEN Terminate(playlist, index, is_reset_index_on_stop)
              ELSE [playlist |-> playlist, index |-> index]
     IN /\ persisted' = IF drain
                        THEN gst_hls_sink_write_playlist(t.playlist, persisted, wok)
                        ELSE persisted
        /\ posted' = IF drain THEN WriteError(wok) ELSE posted
        /\ playlist' = t.playlist
  /\ index' = DEFAULT_START_MEDIA_SEQUENCE
  /\ rpc' = "freed"
  /\ UNCHANGED <<last_running_time, waiting_fku, target_duration, playlist_length,
                 encryption_method, is_reset_index_on_stop, state, crypto, chunk,
                 pc, msg, ppc, pbuf, outstanding, added, last_add, enc, last_sched,
                 nfiles, key, inbuf, final_size, boundary, observed, ivs, echo>>

StopFinish ==
  /\ rpc = "freed"
  /\ playlist' = gst_m3u8_playlist_new(GST_M3U8_PLAYLIST_VERSION, playlist_length)
  /\ last_running_time' = 0
  /\ waiting_fku' = FALSE
  /\ state' = {}
  /\ outstanding' = 0
  /\ added' = <<>>
  /\ ivs' = <<>>
  /\ last_sched' = "none"
  /\ boundary' = 0
  /\ observed' = FALSE
  /\ echo' = IF echo.st = "off" THEN echo
             ELSE [st |-> "none", count |-> 0, failed |-> FALSE]
  /\ rpc' = "idle"
  /\ UNCHANGED <<index, target_duration, playlist_length, encryption_method,
                 is_reset_index_on_stop, crypto, persisted, chunk, pc, msg, ppc,
                 pbuf, last_add, enc, nfiles, key, inbuf, final_size, posted>>

(***************************************************************************)
(* Pad probes, the chain-list function and the target-duration property.   *)
(***************************************************************************)
\* gst_hls_sink_ghost_event_probe, a downstream force-key-unit event
EventProbe(count) ==
  /\ pc = "idle"
  /\ index' = count
  /\ echo' = IF echo.st = "due" /\ count = echo.count
             THEN [echo EXCEPT !.st = "done"] ELSE echo
  /\ UNCHANGED <<playlist, last_running_time, waiting_fku, target_duration,
                 playlist_length, encryption_method, is_reset_index_on_stop, state,
                 crypto, persisted, chunk, pc, msg, ppc, pbuf, outstanding,
                 added, last_add, enc, last_sched, nfiles,
                 key, inbuf, final_size,
                 rpc, boundary, observed, posted, ivs>>

\* gst_hls_sink_change_state, NULL_TO_READY: the transition goes on whatever
\* gst_hls_sink_open_key found
NullToReady(file) ==
  /\ pc = "idle"
  /\ state = {}
  /\ key' = IF encryption_method /= GST_HLS_SINK_ENC_NONE
            THEN gst_hls_sink_open_key(key, file)
            ELSE key
  /\ UNCHANGED <<playlist, index, last_running_time, waiting_fku, target_duration,
                 playlist_length, encryption_method, is_reset_index_on_stop, state,
                 crypto, persisted, chunk, pc, msg, ppc, pbuf, outstanding,
                 added, last_add, enc, last_sched, nfiles, inbuf, final_size,
                 rpc, boundary, observed, posted, ivs, echo>>

\* gst_hls_sink_set_property, PROP_START_MEDIA_SEQUENCE
SetStartMediaSequence(v) ==
  /\ pc = "idle"
  /\ index' = v - 1
  /\ UNCHANGED <<playlist, last_running_time, waiting_fku, target_duration,
                 playlist_length, encryption_method, is_reset_index_on_stop, state,
                 crypto, persisted, chunk, pc, msg, ppc, pbuf, outstanding,
                 added, last_add, enc, last_sched, nfiles,
                 key, inbuf, final_size,
                 rpc, boundary, observed, posted, ivs, echo>>

\* gst_hls_sink_set_property, PROP_PLAYLIST_LENGTH
SetPlaylistLength(v) ==
  /\ pc = "idle"
  /\ v /= playlist_length
  /\ playlist_length' = v
  /\ playlist' = [playlist EXCEPT !.window_size = v]
  /\ UNCHANGED <<index, last_running_time, waiting_fku, target_duration,
                 encryption_method, is_reset_index_on_stop, state, crypto,
                 persisted, chunk, pc, msg, ppc, pbuf, outstanding, added,
                 last_add, enc, last_sched, nfiles, key, inbuf, final_size,
                 rpc, boundary, observed, posted, ivs, echo>>

\* gst_hls_sink_set_property, PROP_TARGET_DURATION
SetTargetDuration(v) ==
  /\ pc = "idle"
  /\ v /= target_duration
  /\ target_duration' = v
  /\ UNCHANGED <<playlist, index, last_running_time, waiting_fku, playlist_length,
                 encryption_method, is_reset_index_on_stop, state, crypto,
                 persisted, chunk, pc, msg, ppc, pbuf, outstanding, added,
                 last_add, enc, last_sched, nfiles,
                 key, inbuf, final_size,
                 rpc, boundary, observed, posted, ivs, echo>>

BufferProbe(buf) ==
  /\ pc = "idle"
  /\ ppc = "idle"
  /\ SetSched(gst_hls_sink_ghost_buffer_probe(Sched, target_duration, index, buf))
  /\ observed' = (observed \/ (target_duration /= 0 /\ buf.valid))
  /\ UNCHANGED <<playlist, index, target_duration, playlist_length,
                 encryption_method, is_reset_index_on_stop, state, crypto,
                 persisted, chunk, pc, msg, ppc, pbuf, added, last_add, enc, nfiles,
                 key, inbuf, final_size,
                 rpc, boundary, posted, ivs>>

ChainList(list) ==
  /\ pc = "idle"
  /\ ppc = "idle"
  /\ SetSched(gst_hls_sink_chain_list(Sched, target_duration, index, list))
  /\ observed' = (observed \/ (target_duration /= 0 /\ list /= <<>>))
  /\ UNCHANGED <<playlist, index, target_duration, playlist_length,
                 encryption_method, is_reset_index_on_stop, state, crypto,
                 persisted, chunk, pc, msg, ppc, pbuf, added, last_add, enc, nfiles,
                 key, inbuf, final_size,
                 rpc, boundary, posted, ivs>>

(***************************************************************************)
(* The buffer probe on the streaming thread, as the two accesses it makes: *)
(* the test of target_duration and waiting_fku, then the write of          *)
(* last_running_time and the scheduling.  Nothing in the sink orders them  *)
(* against the steps of the message handler.                               *)
(***************************************************************************)
ProbeEnter(buf) ==
  /\ ppc = "idle"
  /\ ~(target_duration = 0 \/ waiting_fku)
  /\ ppc' = "entered"
  /\ pbuf' = buf
  /\ UNCHANGED <<playlist, index, last_running_time, waiting_fku, target_duration,
                 playlist_length, encryption_method, is_reset_index_on_stop, state,
                 crypto, persisted, chunk, pc, msg, outstanding, added,
                 last_add, enc, last_sched, nfiles,
                 key, inbuf, final_size,
                 rpc, boundary, observed, posted, ivs, echo>>

ProbeRun ==
  /\ ppc = "entered"
  /\ SetSched(gst_hls_sink_check_schedule_next_key_unit(Sched, target_duration,
                                                        index, pbuf))
  /\ ppc' = "idle"
  /\ pbuf' = NoBuf
  /\ observed' = (observed \/ pbuf.valid)
  /\ UNCHANGED <<playlist, index, target_duration, playlist_length,
                 encryption_method, is_reset_index_on_stop, state, crypto,
                 persisted, chunk, pc, msg, added, last_add, enc, nfiles,
                 key, inbuf, final_size,
                 rpc, boundary, posted, ivs>>

(***************************************************************************)
(* The calls on the playlist object, one at a time.                        *)
(***************************************************************************)
AddEntry(duration, idx) ==
  /\ nfiles < MaxCalls
  /\ LET r == gst_m3u8_playlist_add_entry(playlist, Location(nfiles), "", duration,
                                          idx, FALSE, 0)
     IN /\ playlist' = r.playlist
        /\ added' = IF r.res
                    THEN Append(added, r.playlist.entries[Len(r.playlist.entries)])
                    ELSE added
        /\ last_add' = [called |-> TRUE, end_list |-> playlist.end_list,
                        res |-> r.res,
                        seq_before |-> playlist.sequence_number,
                        seq_after |-> r.playlist.sequence_number,
                        changed |-> r.playlist /= playlist]
  /\ nfiles' = nfiles + 1
  /\ UNCHANGED <<index, last_running_time, waiting_fku, target_duration,
                 playlist_length, encryption_method, is_reset_index_on_stop, state,
                 crypto, persisted, chunk, pc, msg, ppc, pbuf, outstanding, enc,
                 last_sched,
                 key, inbuf, final_size,
                 rpc, boundary, observed, posted, ivs, echo>>

\* gst_m3u8_playlist_add_entry as a caller that numbers its segments calls
\* it: any duration, marked discontinuous or not, stamped with a date
PushEntry(duration, discontinuous) ==
  /\ nfiles < MaxCalls
  /\ LET r == gst_m3u8_playlist_add_entry(playlist, Location(nfiles), "", duration,
                                          nfiles, discontinuous, nfiles * GST_SECOND)
     IN /\ playlist' = r.playlist
        /\ added' = IF r.res
                    THEN Append(added, r.playlist.entries[Len(r.playlist.entries)])
                    ELSE added
        /\ last_add' = [called |-> TRUE, end_list |-> playlist.end_list,
                        res |-> r.res,
                        seq_before |-> playlist.sequence_number,
                        seq_after |-> r.playlist.sequence_number,
                        changed |-> r.playlist /= playlist]
  /\ nfiles' = nfiles + 1
  /\ UNCHANGED <<index, last_running_time, waiting_fku, target_duration,
                 playlist_length, encryption_method, is_reset_index_on_stop, state,
                 crypto, persisted, chunk, pc, msg, ppc, pbuf, outstanding, enc,
                 last_sched,
                 key, inbuf, final_size,
                 rpc, boundary, observed, posted, ivs, echo>>

\* playlist->end_list = TRUE
SetEndList ==
  /\ ~playlist.end_list
  /\ playlist' = [playlist EXCEPT !.end_list = TRUE]
  /\ UNCHANGED <<index, last_running_time, waiting_fku, target_duration,
                 playlist_length, encryption_method, is_reset_index_on_stop, state,
                 crypto, persisted, chunk, pc, msg, ppc, pbuf, outstanding, added,
                 nfiles, last_add, enc, last_sched,
                 key, inbuf, final_size,
                 rpc, boundary, observed, posted, ivs, echo>>

\* persisted holds the text gst_m3u8_playlist_render returned
Render ==
  /\ persisted' = gst_m3u8_playlist_render(playlist)
  /\ UNCHANGED <<playlist, index, last_running_time, waiting_fku, target_duration,
                 playlist_length, encryption_method, is_reset_index_on_stop, state,
                 crypto, chunk, pc, msg, ppc, pbuf, outstanding, added, nfiles,
                 last_add, enc, last_sched,
                 key, inbuf, final_size,
                 rpc, boundary, observed, posted, ivs, echo>>

(***************************************************************************)
(* Specifications.                                                         *)
(***************************************************************************)
\* the whole sink; every handler runs to completion before the next starts
Next ==
  \/ \E rt \in Times : MsgElement(rt)
  \/ MsgEncrypt
  \/ \E wok \in BOOLEAN : MsgWrite(wok)
  \/ \E ok \in BOOLEAN : MsgSchedule(ok)
  \/ \E wok \in BOOLEAN : Eos(wok)
  \/ \E trans \in {"PAUSED_TO_READY", "READY_TO_NULL"}, wok \in BOOLEAN :
       ChangeState(trans, wok)
  \/ \E count \in 0 .. MaxIndex : EventProbe(count)
  \/ \E v \in TargetDurations : SetTargetDuration(v)
  \/ \E v \in Windows : SetPlaylistLength(v)
  \/ \E buf \in Buffers : BufferProbe(buf)
  \/ \E list \in BufferLists : ChainList(list)

Spec == Init /\ [][Next]_vars

\* the playlist object on its own, in the hands of any caller
InitAdd ==
  /\ playlist_length \in 0 .. MaxSize
  /\ encryption_method = GST_HLS_SINK_ENC_NONE
  /\ playlist = gst_m3u8_playlist_new(GST_M3U8_PLAYLIST_VERSION, playlist_length)
  /\ index = DEFAULT_START_MEDIA_SEQUENCE
  /\ last_running_time = 0
  /\ waiting_fku = FALSE
  /\ target_duration = 0
  /\ is_reset_index_on_stop = TRUE
  /\ state = {}
  /\ crypto = "unused"
  /\ key = "zero"
  /\ persisted = ""
  /\ chunk = "none"
  /\ pc = "idle"
  /\ msg = NoMsg
  /\ ppc = "idle"
  /\ pbuf = NoBuf
  /\ outstanding = 0
  /\ added = <<>>
  /\ nfiles = 0
  /\ last_add = NoAdd
  /\ enc = NoEnc
  /\ last_sched = "none"
  /\ inbuf = <<>>
  /\ final_size = -1
  /\ rpc = "idle"
  /\ boundary = 0
  /\ observed = FALSE
  /\ posted = "none"
  /\ ivs = <<>>
  /\ echo = NoEcho

NextAdd ==
  \/ \E duration \in Times, idx \in -1 .. MaxIndex : AddEntry(duration, idx)
  \/ SetEndList
  \/ Render

SpecAdd == InitAdd /\ [][NextAdd]_vars

\* the target duration of a playlist, for segments of any of the durations
NextDur ==
  \/ \E duration \in Durations : PushEntry(duration, FALSE)
  \/ Render

SpecDur == InitAdd /\ [][NextDur]_vars

\* the rendering of a playlist in each program-date-time mode
InitRender ==
  /\ playlist_length \in 0 .. MaxSize
  /\ encryption_method = GST_HLS_SINK_ENC_NONE
  /\ \E mode \in Modes :
       playlist = [gst_m3u8_playlist_new(GST_M3U8_PLAYLIST_VERSION, playlist_length)
                     EXCEPT !.program_date_time_mode = mode]
  /\ index = DEFAULT_START_MEDIA_SEQUENCE
  /\ last_running_time = 0
  /\ waiting_fku = FALSE
  /\ target_duration = 0
  /\ is_reset_index_on_stop = TRUE
  /\ state = {}
  /\ crypto = "unused"
  /\ key = "zero"
  /\ persisted = ""
  /\ chunk = "none"
  /\ pc = "idle"
  /\ msg = NoMsg
  /\ ppc = "idle"
  /\ pbuf = NoBuf
  /\ outstanding = 0
  /\ added = <<>>
  /\ nfiles = 0
  /\ last_add = NoAdd
  /\ enc = NoEnc
  /\ last_sched = "none"
  /\ inbuf = <<>>
  /\ final_size = -1
  /\ rpc = "idle"
  /\ boundary = 0
  /\ observed = FALSE
  /\ posted = "none"
  /\ ivs = <<>>
  /\ echo = NoEcho

NextRender ==
  \/ \E duration \in {2400, 14600}, discontinuous \in BOOLEAN :
       PushEntry(duration, discontinuous)
  \/ SetEndList
  \/ Render

SpecRender == InitRender /\ [][NextRender]_vars

\* the playlist: target-duration is 0, the application schedules the key
\* units itself and the buffer probe returns at once
InitPlaylist ==
  /\ Init
  /\ target_duration = 0
  /\ encryption_method = GST_HLS_SINK_ENC_NONE

NextPlaylist ==
  \/ \E rt \in Times : MsgElement(rt)
  \/ MsgEncrypt
  \/ \E wok \in BOOLEAN : MsgWrite(wok)
  \/ \E ok \in BOOLEAN : MsgSchedule(ok)
  \/ \E wok \in BOOLEAN : Eos(wok)
  \/ \E trans \in {"PAUSED_TO_READY", "READY_TO_NULL"}, wok \in BOOLEAN :
       ChangeState(trans, wok)
  \/ \E count \in 0 .. MaxIndex : EventProbe(count)

SpecPlaylist == InitPlaylist /\ [][NextPlaylist]_vars

\* the life cycle of the playlist on a disk that takes every write
NextStop ==
  \/ \E rt \in Times : MsgElement(rt)
  \/ MsgEncrypt
  \/ MsgWrite(TRUE)
  \/ \E ok \in BOOLEAN : MsgSchedule(ok)
  \/ Eos(TRUE)
  \/ \E trans \in {"PAUSED_TO_READY", "READY_TO_NULL"} : ChangeState(trans, TRUE)
  \/ \E count \in 0 .. MaxIndex : EventProbe(count)
  \/ \E v \in 0 .. MaxIndex : SetStartMediaSequence(v)

SpecStop == InitPlaylist /\ [][NextStop]_vars

\* the scheduler: a playlist of one entry, no encryption, and a disk that
\* takes every write of the playlist
InitSched ==
  /\ Init
  /\ playlist_length = 1
  /\ encryption_method = GST_HLS_SINK_ENC_NONE
  /\ is_reset_index_on_stop

NextSched ==
  \/ \E rt \in Times : MsgElement(rt)
  \/ MsgEncrypt
  \/ MsgWrite(TRUE)
  \/ \E ok \in BOOLEAN : MsgSchedule(ok)
  \/ \E trans \in {"PAUSED_TO_READY", "READY_TO_NULL"} : ChangeState(trans, TRUE)
  \/ \E count \in 0 .. MaxIndex : EventProbe(count)
  \/ \E v \in TargetDurations : SetTargetDuration(v)
  \/ \E buf \in Buffers : BufferProbe(buf)
  \/ \E list \in BufferLists : ChainList(list)

SpecSched == InitSched /\ [][NextSched]_vars

\* the segment-closed handler with encryption enabled
InitEnc ==
  /\ Init
  /\ playlist_length = 1
  /\ encryption_method = GST_HLS_SINK_ENC_AES_128
  /\ is_reset_index_on_stop
  /\ key = "loaded"

NextEnc ==
  \/ \E rt \in Times : MsgElement(rt)
  \/ MsgEncrypt
  \/ \E wok \in BOOLEAN : MsgWrite(wok)
  \/ \E ok \in BOOLEAN : MsgSchedule(ok)
  \/ \E wok \in BOOLEAN : Eos(wok)
  \/ \E trans \in {"PAUSED_TO_READY", "READY_TO_NULL"}, wok \in BOOLEAN :
       ChangeState(trans, wok)

SpecEnc == InitEnc /\ [][NextEnc]_vars

\* gst_hls_sink_encrypt_chunk in a build without OpenSSL, after the fread:
\* final_size = add_padding (in, size), size being what fread returned
AddPadding ==
  /\ crypto \in {"nettle", "gcrypt"}
  /\ final_size = -1
  /\ LET r == add_padding(inbuf, Len(inbuf))
     IN /\ inbuf' = r.buf
        /\ final_size' = r.ret
  /\ UNCHANGED <<playlist, index, last_running_time, waiting_fku, target_duration,
                 playlist_length, encryption_method, is_reset_index_on_stop, state,
                 crypto, key, persisted, chunk, pc, msg, ppc, pbuf, outstanding,
                 added, nfiles, last_add, enc, last_sched,
                 rpc, boundary, observed, posted, ivs, echo>>

\* a segment of any length up to MaxLen has been read into the buffer
InitPad ==
  /\ playlist_length = 1
  /\ encryption_method = GST_HLS_SINK_ENC_AES_128
  /\ playlist = [gst_m3u8_playlist_new(GST_M3U8_PLAYLIST_VERSION, playlist_length)
                   EXCEPT !.encryption_method = encryption_method,
                          !.key_location = DEFAULT_KEY_URI]
  /\ index = DEFAULT_START_MEDIA_SEQUENCE
  /\ last_running_time = 0
  /\ waiting_fku = FALSE
  /\ target_duration = 0
  /\ is_reset_index_on_stop = TRUE
  /\ state = {}
  /\ crypto \in {"nettle", "gcrypt"}
  /\ key = "loaded"
  /\ persisted = ""
  /\ chunk = "plain"
  /\ pc = "encrypt"
  /\ msg = NoMsg
  /\ ppc = "idle"
  /\ pbuf = NoBuf
  /\ outstanding = 0
  /\ added = <<>>
  /\ nfiles = 0
  /\ last_add = NoAdd
  /\ enc = NoEnc
  /\ last_sched = "none"
  /\ \E size \in 0 .. MaxLen, b \in Bytes : inbuf = [i \in 1 .. size |-> b]
  /\ final_size = -1
  /\ rpc = "idle"
  /\ boundary = 0
  /\ observed = FALSE
  /\ posted = "none"
  /\ ivs = <<>>
  /\ echo = NoEcho

NextPad == AddPadding

SpecPad == InitPad /\ [][NextPad]_vars

\* the element is started with a key file that may be missing or short
InitKey ==
  /\ Init
  /\ playlist_length = 1
  /\ encryption_method = GST_HLS_SINK_ENC_AES_128
  /\ is_reset_index_on_stop
  /\ key = "zero"

NextKey ==
  \/ \E file \in KeyFiles : NullToReady(file)
  \/ \E rt \in Times : MsgElement(rt)
  \/ MsgEncrypt
  \/ MsgWrite(TRUE)
  \/ \E ok \in BOOLEAN : MsgSchedule(ok)
  \/ \E trans \in {"PAUSED_TO_READY", "READY_TO_NULL"} : ChangeState(trans, TRUE)

SpecKey == InitKey /\ [][NextKey]_vars

\* encryption of segments of any index
NextIv ==
  \/ \E rt \in Times : MsgElement(rt)
  \/ MsgEncrypt
  \/ MsgWrite(TRUE)
  \/ \E ok \in BOOLEAN : MsgSchedule(ok)
  \/ \E count \in Counts : EventProbe(count)

SpecIv == InitEnc /\ [][NextIv]_vars

\* the application changes playlist-length between segments
NextWindow ==
  \/ \E rt \in Times : MsgElement(rt)
  \/ MsgEncrypt
  \/ MsgWrite(TRUE)
  \/ \E ok \in BOOLEAN : MsgSchedule(ok)
  \/ \E v \in Windows : SetPlaylistLength(v)

SpecWindow == InitPlaylist /\ [][NextWindow]_vars

\* the application stops the element while a segment-closed message is
\* being handled
NextReset ==
  \/ \E rt \in Times : MsgElement(rt)
  \/ MsgEncrypt
  \/ MsgWrite(TRUE)
  \/ \E ok \in BOOLEAN : MsgSchedule(ok)
  \/ \E trans \in {"PAUSED_TO_READY", "READY_TO_NULL"} : StopFree(trans, TRUE)
  \/ StopFinish

SpecReset == InitEnc /\ [][NextReset]_vars

\* the streaming thread's probe runs while the control thread handles a
\* segment-closed message
NextConc ==
  \/ \E rt \in Times : MsgElement(rt)
  \/ MsgEncrypt
  \/ \E wok \in BOOLEAN : MsgWrite(wok)
  \/ \E ok \in BOOLEAN : MsgSchedule(ok)
  \/ \E buf \in Buffers : ProbeEnter(buf)
  \/ ProbeRun

SpecConc == InitSched /\ [][NextConc]_vars

\* buffers only: no segment closes, nothing resets the sink and the
\* target-duration stays as the application set it
InitObs ==
  /\ Init
  /\ encryption_method = GST_HLS_SINK_ENC_NONE

NextObs ==
  \/ \E buf \in Buffers : BufferProbe(buf)
  \/ \E list \in BufferLists : ChainList(list)
  \/ \E count \in 0 .. MaxIndex : EventProbe(count)

\* buffers with valid timestamps keep arriving and pushes succeed in the end
ObserveOk == \E t \in Times : BufferProbe([valid |-> TRUE, rt |-> t, ok |-> TRUE])

LiveSpec == InitObs /\ [][NextObs]_vars /\ WF_vars(ObserveOk)

(***************************************************************************)
(* Properties.                                                             *)
(***************************************************************************)
\* C1: on a playlist whose window_size W is above 0, after every add_entry
\* call the playlist holds at most W entries, and they are the Min(n, W)
\* entries added last of the n added so far, oldest first.
C1_WindowKeepsNewest ==
  playlist.window_size > 0 =>
    LET n == Len(added)
        k == Min(n, playlist.window_size)
    IN /\ Len(playlist.entries) <= playlist.window_size
       /\ playlist.entries = SubSeq(added, n - k + 1, n)

\* three entries were added to a window of two: the oldest was evicted
C1_Evicted ==
  /\ playlist.window_size = 2
  /\ Len(added) = 3
  /\ Len(playlist.entries) = 2

\* C2: with one thread and target-duration above 0, once a buffer
\* observation has pushed a force-key-unit request, the buffers and buffer
\* lists observed before the next segment-closed message push no further
\* one: at most one request is outstanding.
C2_AtMostOneOutstanding == outstanding <= 1

\* a buffer pushed a request and a later buffer was let through without one
C2_HeldAfterRequest ==
  /\ target_duration > 0
  /\ nfiles = 0
  /\ outstanding = 1
  /\ waiting_fku
  /\ last_sched = "held"

\* C3: with the buffer probe on the streaming thread and the segment-closed
\* handler on the control thread, no interleaving of their reads and writes
\* pushes two requests with no segment closure in between.
C3_NoDoubleRequest == outstanding < 2

\* C4: sequence_number never decreases; every successful add_entry call
\* leaves it one above what it was, whatever the arguments.
C4_SequenceAdvances ==
  (last_add.called /\ last_add.res) =>
    last_add.seq_after = last_add.seq_before + 1

\* C5: once end_list is set, add_entry fails and changes nothing of the
\* playlist; a segment-closed message after the end of stream adds no entry.
C5_FinalizedRejects ==
  (last_add.called /\ last_add.end_list) =>
    (~last_add.res /\ ~last_add.changed)

\* C6: with encryption enabled the segment-closed handler encrypts the
\* file, then appends the entry, then writes the playlist, then schedules:
\* the entry of the segment is not in the playlist while its encryption has
\* yet to run.
C6_EncryptBeforeAppend ==
  pc = "encrypt" =>
    \A i \in DOMAIN playlist.entries : playlist.entries[i].url /= msg.filename

\* C7: when a step of gst_hls_sink_encrypt_chunk fails, the segment file
\* holds after the call what it held before it.
C7_FailureKeepsOriginal ==
  (enc.ran /\ enc.fault /= "none") => chunk = "plain"

\* C8: while target-duration is 0 no buffer, buffer list, segment-closed
\* message or state change makes the sink push a force-key-unit request, or
\* try to.
C8_InertAtZero ==
  [][target_duration = 0 =>
       /\ outstanding' <= outstanding
       /\ last_sched' \in {"pushed", "failed"} => last_sched' = last_sched]_vars

\* a segment closed with target-duration 0: waiting_fku is set and nothing
\* was pushed
C8_ClosedAtZero ==
  /\ target_duration = 0
  /\ nfiles > 0
  /\ pc = "idle"
  /\ waiting_fku
  /\ outstanding = 0
  /\ last_sched = "none"

\* C9: a push that fails leaves waiting_fku FALSE; the next buffer with a
\* valid timestamp pushes again; and when such buffers keep coming and
\* pushes succeed in the end, waiting_fku becomes TRUE with no segment
\* closure and no reset.
C9_FailedPushSelfHeals ==
  /\ [](last_sched = "failed" => ~waiting_fku)
  /\ [][(/\ last_sched = "failed"
         /\ \E buf \in Buffers : buf.valid /\ BufferProbe(buf))
        => /\ last_sched' \in {"pushed", "failed"}
           /\ waiting_fku' = (last_sched' = "pushed")]_vars
  /\ (last_sched = "failed") ~> waiting_fku

\* a push has failed and the scheduler is idle
C9_IdleAfterFailure ==
  /\ target_duration > 0
  /\ last_sched = "failed"
  /\ ~waiting_fku

\* C10 as stated: a new playlist of version 3 and window_size 0 renders as
\* EXTM3U, EXT-X-VERSION:3, EXT-X-MEDIA-SEQUENCE:0, EXT-X-TARGETDURATION:0
\* and one empty line, with no EXT-X-KEY and no EXT-X-ENDLIST.
C10_EmptyRenderZero ==
  (playlist = gst_m3u8_playlist_new(GST_M3U8_PLAYLIST_VERSION, 0) /\ persisted /= "") =>
    persisted = "#EXTM3U\n#EXT-X-VERSION:3\n#EXT-X-MEDIA-SEQUENCE:0\n"
                  \o "#EXT-X-TARGETDURATION:0\n\n"

\* C10 as amended: the same text with EXT-X-TARGETDURATION:1, the ceiling
\* of the 500 ms bias.
C10_EmptyRenderOne ==
  (playlist = gst_m3u8_playlist_new(GST_M3U8_PLAYLIST_VERSION, 0) /\ persisted /= "") =>
    persisted = "#EXTM3U\n#EXT-X-VERSION:3\n#EXT-X-MEDIA-SEQUENCE:0\n"
                  \o "#EXT-X-TARGETDURATION:1\n\n"

\* the new playlist has been rendered
C10_RenderedEmpty ==
  /\ playlist = gst_m3u8_playlist_new(GST_M3U8_PLAYLIST_VERSION, 0)
  /\ persisted /= ""

\* C11: the rendered target duration is ceil((M + 500 ms) / 1 s), M being
\* the longest duration among the retained entries: the least count of
\* seconds that is not below M + 500 ms; for retained durations of 2.4 s,
\* 2.6 s and 3.0 s it is 4.
C11_TargetDurationIsCeiling ==
  persisted = gst_m3u8_playlist_render(playlist) =>
    LET ds == {playlist.entries[i].duration : i \in DOMAIN playlist.entries} \cup {0}
        M == CHOOSE d \in ds : \A e \in ds : e <= d
        td == CHOOSE n \in 0 .. (M \div GST_SECOND + 2) :
                /\ n * GST_SECOND >= M + 500 * GST_MSECOND
                /\ (n - 1) * GST_SECOND < M + 500 * GST_MSECOND
    IN /\ \E i \in DOMAIN RenderPieces(playlist) :
            RenderPieces(playlist)[i] =
              Piece("TARGETDURATION", "#EXT-X-TARGETDURATION:" \o Dec(td) \o "\n")
       /\ ds = {0, 2400, 2600, 3000} =>
            \E i \in DOMAIN RenderPieces(playlist) :
              RenderPieces(playlist)[i] =
                Piece("TARGETDURATION", "#EXT-X-TARGETDURATION:4\n")

\* a playlist that retains segments of 2.4 s, 2.6 s and 3.0 s was rendered
C11_ThreeDurationsRendered ==
  /\ {playlist.entries[i].duration : i \in DOMAIN playlist.entries} = {2400, 2600, 3000}
  /\ persisted = gst_m3u8_playlist_render(playlist)

\* C12 as stated: when the longest retained entry lasts 14.6 s the target
\* duration is 15.
C12_TargetDuration15 ==
  (/\ Len(playlist.entries) > 0
   /\ \A i \in DOMAIN playlist.entries : playlist.entries[i].duration <= 14600
   /\ \E i \in DOMAIN playlist.entries : playlist.entries[i].duration = 14600
   /\ persisted = gst_m3u8_playlist_render(playlist))
  => \E i \in DOMAIN RenderPieces(playlist) :
       RenderPieces(playlist)[i] =
         Piece("TARGETDURATION", "#EXT-X-TARGETDURATION:15\n")

\* C12 as amended: when the longest retained entry lasts 14.6 s the target
\* duration is 16, the ceiling of 15.1.
C12_TargetDuration16 ==
  (/\ Len(playlist.entries) > 0
   /\ \A i \in DOMAIN playlist.entries : playlist.entries[i].duration <= 14600
   /\ \E i \in DOMAIN playlist.entries : playlist.entries[i].duration = 14600
   /\ persisted = gst_m3u8_playlist_render(playlist))
  => \E i \in DOMAIN RenderPieces(playlist) :
       RenderPieces(playlist)[i] =
         Piece("TARGETDURATION", "#EXT-X-TARGETDURATION:16\n")

\* a playlist whose longest retained segment lasts 14.6 s was rendered
C12_LongestRendered ==
  /\ Len(playlist.entries) > 1
  /\ \A i \in DOMAIN playlist.entries : playlist.entries[i].duration <= 14600
  /\ \E i \in DOMAIN playlist.entries : playlist.entries[i].duration = 14600
  /\ persisted = gst_m3u8_playlist_render(playlist)

\* C13: the IV a segment is encrypted with has bytes 0..11 zero and bytes
\* 12..15 the big-endian encoding of the index (00 00 00 05 for index 5,
\* ff ff ff ff for G_MAXUINT); nothing but the index enters it.
C13_IvIsBigEndianIndex ==
  enc.ran =>
    /\ Len(enc.iv) = 16
    /\ \A k \in 1 .. 12 : enc.iv[k] = 0
    /\ \A k \in 13 .. 16 : enc.iv[k] \in 0 .. 255
    /\ index >= 0 =>
         ((enc.iv[13] * 256 + enc.iv[14]) * 256 + enc.iv[15]) * 256 + enc.iv[16] = index
    /\ index = -1 => \A k \in 13 .. 16 : enc.iv[k] = 255
    /\ index = 5 => enc.iv = <<0, 0, 0, 0, 0, 0, 0, 0, 0, 0, 0, 0, 0, 0, 0, 5>>

\* a segment was encrypted at an index whose four bytes differ
C13_EncryptedAtIndex ==
  /\ enc.ran
  /\ index = 16909060
  /\ enc.iv = <<0, 0, 0, 0, 0, 0, 0, 0, 0, 0, 0, 0, 1, 2, 3, 4>>

C15_ResetByPolicy ==
  [][(\E trans \in {"PAUSED_TO_READY", "READY_TO_NULL"}, wok \in BOOLEAN :
        ChangeState(trans, wok))
     => IF is_reset_index_on_stop
        THEN /\ playlist'.entries = <<>>
             /\ ~playlist'.end_list
             /\ playlist'.sequence_number = 0
             /\ index' = DEFAULT_START_MEDIA_SEQUENCE
        ELSE LET drained == \E wok \in BOOLEAN : ChangeState("PAUSED_TO_READY", wok)
                              /\ "STARTED" \in state /\ "ENDED" \notin state
                 step == IF drained THEN 1 ELSE 0
             IN /\ playlist'.entries = playlist.entries
                /\ playlist'.end_list = playlist.end_list
                /\ playlist'.sequence_number = playlist.sequence_number + step
                /\ index' = index + step]_vars

\* the sink was reset without reset-index-on-stop and its playlist still
\* holds a segment
C15_KeptAcrossReset ==
  /\ ~is_reset_index_on_stop
  /\ state = {}
  /\ pc = "idle"
  /\ Len(playlist.entries) > 0
  /\ index >= 0

\* C16: when the encryption of a closed segment failed, the playlist file
\* written for that closure does not list the segment, still plaintext,
\* under an EXT-X-KEY:METHOD=AES-128 line.
C16_NoKeyOverPlaintext ==
  (/\ pc = "schedule"
   /\ chunk = "plain"
   /\ persisted = gst_m3u8_playlist_render(playlist))
  => ~(/\ \E i \in DOMAIN RenderPieces(playlist) :
            RenderPieces(playlist)[i] =
              Piece("KEY", "#EXT-X-KEY:METHOD=AES-128,URI=\"playlist.key\"\n")
       /\ \E i \in DOMAIN RenderPieces(playlist) :
            RenderPieces(playlist)[i] = Piece("URL", msg.filename \o "\n"))

\* C17: when the key file cannot be opened or holds fewer than 16 bytes,
\* the sink either encrypts no segment and declares no key, or fails; once
\* gst_hls_sink_open_key has run, no segment is encrypted with key bytes
\* that were not read from the key file.
C17_NoEncryptionWithoutKey ==
  (key /= "zero" /\ chunk \notin {"none", "plain"}) => key = "loaded"

\* C18: gst_m3u8_playlist_render gives a text in every state of the
\* playlist, the header first, and does not change it; the text has the final EXT-X-ENDLIST
\* exactly when end_list is set, one EXTINF line followed by one URL line
\* for each retained entry, oldest first, and an EXT-X-MEDIA-SEQUENCE of
\* sequence_number minus the number of retained entries.
C18_RenderShape ==
  /\ [](RenderPieces(playlist)[1] = Piece("EXTM3U", "#EXTM3U\n"))
  /\ [][persisted' /= persisted => playlist' = playlist]_vars
  /\ [](persisted = gst_m3u8_playlist_render(playlist) =>
          LET pieces == RenderPieces(playlist)
              IsLine(p) == p.tag \in {"EXTINF", "URL"}
              lines == SelectSeq(pieces, IsLine)
              n == Len(playlist.entries)
          IN /\ playlist.end_list <=> pieces[Len(pieces)].tag = "ENDLIST"
             /\ \A i \in 1 .. Len(pieces) - 1 : pieces[i].tag /= "ENDLIST"
             /\ Len(lines) = 2 * n
             /\ \A i \in 1 .. n :
                  /\ lines[2 * i - 1].tag = "EXTINF"
                  /\ lines[2 * i] = Piece("URL", playlist.entries[i].url \o "\n")
             /\ \E i \in DOMAIN pieces :
                  pieces[i] = Piece("MEDIA-SEQUENCE", "#EXT-X-MEDIA-SEQUENCE:"
                                      \o SignedDec(playlist.sequence_number - n)
                                      \o "\n"))

\* an ended playlist of two entries, one already evicted, was rendered
C18_RenderedEnded ==
  /\ playlist.end_list
  /\ Len(playlist.entries) = 2
  /\ Len(added) = 3
  /\ persisted = gst_m3u8_playlist_render(playlist)

C20_PaddingFillsBlock ==
  [][final_size' /= final_size =>
       LET n == Len(inbuf)
           p == Len(inbuf') - n
       IN /\ p = AES_BLOCK_SIZE - (n % AES_BLOCK_SIZE)
          /\ 1 <= p /\ p <= AES_BLOCK_SIZE
          /\ SubSeq(inbuf', 1, n) = inbuf
          /\ \A i \in n + 1 .. n + p : inbuf'[i] = p
          /\ final_size' = n + p
          /\ final_size' % AES_BLOCK_SIZE = 0
          /\ final_size' > n
          /\ n % AES_BLOCK_SIZE = 0 =>
               SubSeq(inbuf', n + 1, n + p) = [i \in 1 .. 16 |-> 16]]_vars

\* a segment of two full blocks, padded with a third
C20_AlignedPadded ==
  /\ final_size = 3 * AES_BLOCK_SIZE
  /\ inbuf[2 * AES_BLOCK_SIZE] = 255
  /\ \A i \in 2 * AES_BLOCK_SIZE + 1 .. 3 * AES_BLOCK_SIZE : inbuf[i] = AES_BLOCK_SIZE

\* C21: when the application stops the element while a segment-closed
\* message is being handled, the handler, once it has appended the entry
\* and run the encryption, never renders a playlist that gst_hls_sink_reset
\* has freed.
C21_NoUseAfterFree ==
  [][(pc = "write" /\ pc' = "schedule") => rpc = "idle"]_vars

\* C22: whenever the playlist's window_size is greater than 0 the playlist
\* holds at most window_size entries, also after playlist-length was set
\* while entries are held.
C22_WindowBound ==
  playlist.window_size > 0 => Len(playlist.entries) <= playlist.window_size

\* C23: a buffer seen by the probe while no request is outstanding and
\* target_duration > 0, that is not the first buffer since the start, is
\* not older than the buffer before it and has a running time below the
\* last segment boundary plus target_duration, has no force-key-unit
\* request pushed for it.
C23_EarlyObservationSilent ==
  [][\A buf \in Buffers :
       (/\ BufferProbe(buf)
        /\ target_duration > 0 /\ ~waiting_fku
        /\ buf.valid /\ observed /\ buf.rt >= last_running_time
        /\ buf.rt < boundary + target_duration * GST_SECOND)
       => last_sched' /= "pushed"]_vars

\* C24: once a segment has closed, every force-key-unit request pushed with
\* success, by the buffer probe or by the segment-closed handler, asks for
\* the running time of the last segment closure plus target_duration and
\* carries the count index + 1.
C24_RequestAtBoundary ==
  [][/\ \A buf \in Buffers :
          BufferProbe(buf) /\ "STARTED" \in state =>
            LET s == gst_hls_sink_ghost_buffer_probe(Sched, target_duration, index, buf)
            IN s.emitted > 0 =>
                 s.event = [sent |-> TRUE,
                            running_time |-> boundary + target_duration * GST_SECOND,
                            count |-> index + 1]
     /\ \A ok \in BOOLEAN :
          MsgSchedule(ok) =>
            LET s == schedule_next_key_unit([Sched EXCEPT !.waiting_fku = FALSE],
                                            target_duration, index, ok)
            IN s.emitted > 0 =>
                 s.event = [sent |-> TRUE,
                            running_time |-> boundary + target_duration * GST_SECOND,
                            count |-> index + 1]]_vars

\* C25: when the handler of a segment-closed message returns, sink->index
\* is one more than the index the message was handled with (which
\* gst_m3u8_playlist_add_entry left, plus one, in sequence_number).
C25_IndexAdvances ==
  [][(pc = "schedule" /\ pc' = "idle") => index' = playlist.sequence_number]_vars

\* C26: with target_duration > 0 the handler of a segment-closed message
\* with running time T returns with last_running_time = T and with one
\* force-key-unit request for T + target_duration made, no buffer needed;
\* waiting_fku is then TRUE if the push succeeded and FALSE if it failed,
\* whatever it was when the message came.
C26_ClosureRearms ==
  [][\A ok \in BOOLEAN :
       MsgSchedule(ok) /\ target_duration > 0 =>
         LET s == schedule_next_key_unit([Sched EXCEPT !.waiting_fku = FALSE],
                                         target_duration, index, ok)
         IN /\ last_running_time' = msg.running_time
            /\ boundary = msg.running_time
            /\ s.event = [sent |-> TRUE,
                          running_time |-> msg.running_time + target_duration * GST_SECOND,
                          count |-> index + 1]
            /\ outstanding' = IF ok THEN 1 ELSE 0
            /\ waiting_fku' = ok
            /\ last_sched' = IF ok THEN "pushed" ELSE "failed"]_vars

\* the second segment closed at 5 s while a request was outstanding, and the
\* handler has pushed the next one
C26_RearmedAfterSecond ==
  /\ pc = "idle" /\ nfiles = 2 /\ target_duration = 2
  /\ boundary = 5000 /\ last_running_time = 5000
  /\ waiting_fku /\ last_sched = "pushed" /\ outstanding = 1
  /\ Len(added) = 2 /\ added[2].duration = 2600

\* C27: the duration of the entry added for a segment that is not the first
\* since the start is the running time of its closure minus the running
\* time of the closure before it, whatever buffers the probe saw in between.
C27_DurationIsClosureDelta ==
  [][\A rt \in Times :
       MsgElement(rt) /\ "STARTED" \in state =>
         added'[Len(added')].duration = rt - boundary]_vars

\* C28: the EXT-X-TARGETDURATION line of the text is computed from the
\* entries the playlist holds when it is rendered, the last window_size
\* entries added (all of them when window_size is 0), and from no entry
\* deleted before: one second when there is none, else the longest of their
\* durations plus half a second, rounded up to whole seconds.
C28_TargetDurationOfRetained ==
  LET n == Len(added)
      W == playlist.window_size
      first == IF W > 0 /\ n > W THEN n - W + 1 ELSE 1
      secs == {(added[i].duration + 500 * GST_MSECOND + GST_SECOND - 1) \div GST_SECOND :
                 i \in first .. n} \cup {1}
      most == CHOOSE m \in secs : \A k \in secs : k <= m
  IN \E i \in DOMAIN RenderPieces(playlist) :
       RenderPieces(playlist)[i] =
         Piece("TARGETDURATION", "#EXT-X-TARGETDURATION:" \o Dec(most) \o "\n")

\* the 14.6 s entry was deleted and the text written since shows the target
\* duration of the 3 s entry that is left
C28_DecreasedAfterEviction ==
  /\ playlist.window_size = 1 /\ Len(added) = 2
  /\ added[1].duration = 14600 /\ added[2].duration = 3000
  /\ playlist.entries = <<added[2]>>
  /\ persisted = gst_m3u8_playlist_render(playlist)
  /\ gst_m3u8_playlist_target_duration(playlist) = 4

\* C29: while no segment has closed since the start (STARTED not set), an
\* end of stream leaves end_list, sequence_number and the index as they
\* are, and a stop writes no playlist and ends none.
C29_TerminationOnlyWhenStarted ==
  []["STARTED" \notin state =>
       /\ \A wok \in BOOLEAN :
            Eos(wok) => /\ playlist'.end_list = playlist.end_list
                        /\ playlist'.sequence_number = playlist.sequence_number
                        /\ index' = index
       /\ \A trans \in {"PAUSED_TO_READY", "READY_TO_NULL"}, wok \in BOOLEAN :
            ChangeState(trans, wok) => /\ persisted' = persisted
                                       /\ ~playlist'.end_list]_vars

\* C30: with encryption enabled the playlist file is written only while no
\* segment is in hand or after gst_hls_sink_encrypt_chunk has returned for
\* the segment in hand; it is never written between the moment the entry
\* of a segment is added and the end of that segment's encryption.
C30_WriteAfterEncryption ==
  [][(encryption_method /= GST_HLS_SINK_ENC_NONE /\ persisted' /= persisted) =>
       \/ pc = "idle"
       \/ pc = "write" /\ enc.ran]_vars

\* the playlist that lists the first segment has been written, and the
\* segment file is the encrypted one
C30_WrittenAfterCipher ==
  /\ encryption_method = GST_HLS_SINK_ENC_AES_128
  /\ pc = "schedule" /\ chunk = "cipher"
  /\ Len(playlist.entries) = 1 /\ playlist.entries[1].url = msg.filename
  /\ persisted = gst_m3u8_playlist_render(playlist)

\* C31: when the write of the playlist file fails in the handler of a
\* segment-closed message, a RESOURCE OPEN_WRITE error is posted, the file
\* keeps the text it had and the playlist object is not touched; the
\* handler goes on, sets STARTED and makes its scheduling decision as it
\* does after a write that succeeded.
C31_WriteFailureIsolated ==
  [][/\ MsgWrite(FALSE) => /\ posted' = "RESOURCE_OPEN_WRITE"
                            /\ persisted' = persisted
                            /\ playlist' = playlist
                            /\ "STARTED" \in state'
                            /\ pc' = "schedule"
     /\ \A ok \in BOOLEAN :
          MsgSchedule(ok) /\ posted = "RESOURCE_OPEN_WRITE" =>
            /\ waiting_fku' = (target_duration = 0 \/ ok)
            /\ target_duration > 0 => last_sched' = IF ok THEN "pushed" ELSE "failed"
            /\ "STARTED" \in state' /\ playlist' = playlist
            /\ persisted' = persisted]_vars

\* the write for the second segment failed: the file still shows the
\* playlist written for the first, and the next request is out
C31_SecondWriteFailed ==
  /\ pc = "idle" /\ nfiles = 2 /\ posted = "RESOURCE_OPEN_WRITE"
  /\ "STARTED" \in state /\ waiting_fku /\ last_sched = "pushed"
  /\ persisted /= "" /\ persisted /= gst_m3u8_playlist_render(playlist)

\* C32: every stop, with reset-index-on-stop set or not, leaves
\* last_running_time 0, waiting_fku FALSE and the state INIT, whether the
\* sink had started, ended or neither; the index is back at
\* DEFAULT_START_MEDIA_SEQUENCE with reset-index-on-stop and otherwise is
\* what it was (after the increment a PAUSED_TO_READY that drains makes).
C32_ResetClearsScheduler ==
  [][\A trans \in {"PAUSED_TO_READY", "READY_TO_NULL"}, wok \in BOOLEAN :
       ChangeState(trans, wok) =>
         LET drain == /\ trans = "PAUSED_TO_READY"
                      /\ "STARTED" \in state /\ "ENDED" \notin state
         IN /\ last_running_time' = 0
            /\ waiting_fku' = FALSE
            /\ state' = {}
            /\ index' = IF is_reset_index_on_stop THEN DEFAULT_START_MEDIA_SEQUENCE
                         ELSE IF drain THEN index + 1 ELSE index]_vars

\* two segments closed, the stream ended and the sink was stopped without
\* reset-index-on-stop: the scheduler fields are cleared, the index is kept
C32_StoppedKeepingIndex ==
  /\ ~is_reset_index_on_stop /\ nfiles = 2 /\ pc = "idle"
  /\ state = {} /\ last_running_time = 0 /\ ~waiting_fku
  /\ index = 1 /\ playlist.sequence_number > 0

\* encrypted segments with any window and either setting of
\* reset-index-on-stop, across downstream force-key-unit events, ends of
\* stream and stops
InitSeq ==
  /\ Init
  /\ encryption_method = GST_HLS_SINK_ENC_AES_128
  /\ key = "loaded"
  /\ target_duration = 0

NextSeq ==
  \/ \E rt \in Times : MsgElement(rt)
  \/ MsgEncrypt
  \/ MsgWrite(TRUE)
  \/ \E ok \in BOOLEAN : MsgSchedule(ok)
  \/ \E count \in 0..MaxIndex : EventProbe(count)
  \/ Eos(TRUE)
  \/ \E trans \in {"PAUSED_TO_READY", "READY_TO_NULL"} : ChangeState(trans, TRUE)

SpecSeq == InitSeq /\ [][NextSeq]_vars

\* the media sequence number a client gives the entry at position i (from 1)
\* of the rendered playlist: the EXT-X-MEDIA-SEQUENCE value plus the position
ClientSequence(pl, i) ==
  (pl.sequence_number - Len(pl.entries)) + (i - 1)

\* the sink with an upstream element that answers every request it receives
\* with a downstream force-key-unit event of the same count, the file sink
\* closing a segment only once that event has passed
InitEcho ==
  /\ InitSink
  /\ echo = [st |-> "none", count |-> 0, failed |-> FALSE]
  /\ target_duration = 2
  /\ encryption_method = GST_HLS_SINK_ENC_NONE

NextEcho ==
  \/ \E rt \in Times : echo.st = "done" /\ MsgElement(rt)
  \/ MsgEncrypt
  \/ MsgWrite(TRUE)
  \/ \E ok \in BOOLEAN : MsgSchedule(ok)
  \/ \E buf \in Buffers : BufferProbe(buf)
  \/ echo.st = "due" /\ EventProbe(echo.count)

SpecEcho == InitEcho /\ [][NextEcho]_vars

\* playlists of every format version up to the sink's, holding segments of
\* durations on both sides of a half second
InitVersion ==
  /\ playlist_length \in 0 .. MaxSize
  /\ encryption_method = GST_HLS_SINK_ENC_NONE
  /\ \E version \in 1 .. GST_M3U8_PLAYLIST_VERSION :
       playlist = gst_m3u8_playlist_new(version, playlist_length)
  /\ index = DEFAULT_START_MEDIA_SEQUENCE
  /\ last_running_time = 0
  /\ waiting_fku = FALSE
  /\ target_duration = 0
  /\ is_reset_index_on_stop = TRUE
  /\ state = {}
  /\ crypto = "unused"
  /\ key = "zero"
  /\ persisted = ""
  /\ chunk = "none"
  /\ pc = "idle"
  /\ msg = NoMsg
  /\ ppc = "idle"
  /\ pbuf = NoBuf
  /\ outstanding = 0
  /\ added = <<>>
  /\ nfiles = 0
  /\ last_add = NoAdd
  /\ enc = NoEnc
  /\ last_sched = "none"
  /\ inbuf = <<>>
  /\ final_size = -1
  /\ rpc = "idle"
  /\ boundary = 0
  /\ observed = FALSE
  /\ posted = "none"
  /\ ivs = <<>>
  /\ echo = NoEcho

NextVersion ==
  \/ \E duration \in {500, 1500, 2400, 14600} : PushEntry(duration, FALSE)
  \/ Render

SpecVersion == InitVersion /\ [][NextVersion]_vars

\* C33: when the stream ends while the sink has started and
\* reset-index-on-stop is not set, the index and the playlist's
\* sequence_number each go up by one and the entries stay as they are, so
\* the EXT-X-MEDIA-SEQUENCE line of the file written is one more than the
\* playlist would have shown before.
C33_OpenTerminationShiftsSequence ==
  [][(/\ "STARTED" \in state /\ ~is_reset_index_on_stop
      /\ \/ Eos(TRUE)
         \/ "ENDED" \notin state /\ ChangeState("PAUSED_TO_READY", TRUE))
     => /\ index' = index + 1
        /\ playlist'.sequence_number = playlist.sequence_number + 1
        /\ playlist'.entries = playlist.entries
        /\ persisted' = gst_m3u8_playlist_render(playlist')
        /\ \E i \in DOMAIN RenderPieces(playlist') :
             RenderPieces(playlist')[i] =
               Piece("MEDIA-SEQUENCE", "#EXT-X-MEDIA-SEQUENCE:"
                       \o SignedDec(playlist.sequence_number
                                      - Len(playlist.entries) + 1) \o "\n")]_vars

\* the stream ended after one segment, handled at index 0
C33_EndedOpen ==
  /\ ~is_reset_index_on_stop /\ {"STARTED", "ENDED"} \subseteq state
  /\ Len(playlist.entries) = 1 /\ ~playlist.end_list
  /\ index = 1 /\ playlist.sequence_number = 2
  /\ persisted = gst_m3u8_playlist_render(playlist)

\* C34: in every state the playlist carries the encryption method and the
\* key URI configured on the sink.
C34_PlaylistMirrorsConfiguration ==
  /\ playlist.encryption_method = encryption_method
  /\ playlist.key_location = DEFAULT_KEY_URI

\* C35: once a segment-closed message has been handled, every retained entry
\* of an encrypted playlist has, as the media sequence number a client
\* derives for it, the index its IV was derived from.
C35_ClientSequenceIsIvIndex ==
  (pc = "idle" /\ playlist.encryption_method /= GST_HLS_SINK_ENC_NONE) =>
    \A i \in DOMAIN playlist.entries : \A k \in DOMAIN ivs :
      ivs[k].url = playlist.entries[i].url =>
        ClientSequence(playlist, i) = ivs[k].index

\* C36: no two segments closed in one stream are encrypted with the same IV,
\* that is, under the same index.
C36_IvsDistinct ==
  \A j, k \in DOMAIN ivs :
    j /= k => gst_hls_sink_create_iv(ivs[j].index) /= gst_hls_sink_create_iv(ivs[k].index)

\* C37: sequence_number is never below the number of entries the playlist
\* holds, so the EXT-X-MEDIA-SEQUENCE value is never negative.
C37_SequenceCoversEntries ==
  /\ playlist.sequence_number >= Len(playlist.entries)
  /\ ClientSequence(playlist, 1) >= 0

\* C38: when every request pushed is answered with a downstream event of
\* the requested count before the segment closes, each segment-closed
\* message is handled with an index one above that of the message before
\* it (the first with the start index plus one), also after failed pushes
\* that the buffer probe retried.
C38_EchoedIndicesStepByOne ==
  [][\A rt \in Times :
       MsgElement(rt) =>
         /\ index = playlist.sequence_number
         /\ playlist'.sequence_number = index + 1
         /\ nfiles = 0 => index = DEFAULT_START_MEDIA_SEQUENCE + 1]_vars

\* the second segment closed at index 1 after a push had failed
C38_SecondClosureAfterRetry ==
  /\ echo.st = "none" /\ echo.failed
  /\ pc = "encrypt" /\ nfiles = 2
  /\ index = 1 /\ playlist.sequence_number = 2

\* C39: once the stream has ended in a run that had started, nothing applies
\* the termination action again: a PAUSED_TO_READY only resets and leaves the
\* playlist file as it is, and a further end-of-stream message leaves the
\* playlist and the index as they are.
C39_TerminationOnce ==
  [][{"STARTED", "ENDED"} \subseteq state =>
       \A wok \in BOOLEAN :
         /\ ChangeState("PAUSED_TO_READY", wok) =>
              /\ persisted' = persisted
              /\ playlist' = gst_hls_sink_reset(playlist, index, is_reset_index_on_stop,
                                                playlist_length).playlist
              /\ index' = gst_hls_sink_reset(playlist, index, is_reset_index_on_stop,
                                             playlist_length).index
         /\ Eos(wok) => (playlist' = playlist /\ index' = index)]_vars

\* C40: in the text rendered for a playlist of version below 3 the
\* EXT-X-TARGETDURATION value is not below the whole number of seconds of
\* the EXTINF line of any entry the playlist holds.
C40_TargetCoversExtinf ==
  (playlist.version < 3 /\ persisted = gst_m3u8_playlist_render(playlist)) =>
    \E t \in 0 .. 16 :
      /\ \E k \in DOMAIN RenderPieces(playlist) :
           RenderPieces(playlist)[k] =
             Piece("TARGETDURATION", "#EXT-X-TARGETDURATION:" \o Dec(t) \o "\n")
      /\ \A i \in DOMAIN playlist.entries :
           LET pieces == EntryPieces(playlist, playlist.entries[i], i = 1)
           IN \E e \in 0 .. t : \E k \in DOMAIN pieces :
                pieces[k] = Piece("EXTINF", "#EXTINF:" \o SignedDec(e) \o ","
                                    \o playlist.entries[i].title \o "\n")

\* a version 2 playlist whose longest segment, 1.5 s, has EXTINF 2 and
\* target duration 2 was rendered after a shorter segment was added
C40_EqualAtHalfSecond ==
  /\ playlist.version = 2 /\ Len(playlist.entries) = 2
  /\ playlist.entries[1].duration = 1500 /\ playlist.entries[2].duration = 500
  /\ persisted = gst_m3u8_playlist_render(playlist)
  /\ gst_m3u8_playlist_target_duration(playlist) = 2

====
